---- MODULE Spec2Model ----
(***************************************************************************)
(* hot_news_bot: the RSS screening pipeline (rss_parser.py), the Telegram  *)
(* publisher (publisher.py) and the event store / relevance matcher        *)
(* (events.py), as state machines.                                         *)
(*                                                                         *)
(* Time is counted in whole days.  `now` is the value datetime.now() has   *)
(* during a step; an entry's published_parsed / updated_parsed is the day  *)
(* number the naive datetime built from it denotes, or None when the     *)
(* field is absent or falsy.                                               *)
(***************************************************************************)
EXTENDS Integers, Sequences, FiniteSets, Bags, TLC

VARIABLES
    now,            \* datetime.now(), in days
    pc,             \* position of the run: "idle", "feed", "entry", "publish", "done"
    feed_idx,       \* fetch_articles: index into RSS_FEEDS
    feed_len,       \* fetch_feed: len(feed.entries) of the feed being read
    entry_idx,      \* fetch_feed: index of the entry the loop is at
    feed_articles,  \* fetch_feed: local list `articles`
    articles,       \* fetch_articles: list `articles`; then the articles still to publish
    published,      \* store: the bag of PublishedRecord rows
    post_stats,     \* store: the PostStats rows, by message id
    channel,        \* Telegram channel: the bag of delivered messages
    digests,        \* digests sent so far
    last_entry,     \* the feed entry parse_entry was last called on (or None)
    last_parsed,    \* what parse_entry returned for it (or None)
    last_log,       \* the line fetch_feed logged for the entry it handled last
    last_unproc,    \* entries of the last feed left unprocessed by an abort
    last_pub,       \* what the last publish_to_telegram / publish_digest did
    today,          \* date.today(), in days (events.py)
    ev_pc,          \* position of update_events: "idle", "fetch", "insert"
    page,           \* the listing blocks the events page holds (relevance matcher)
    new_events,     \* update_events: new_events still to be inserted
    events,         \* store: Event rows, in insertion order
    next_event_id,  \* store: next Event id
    cycle_first_id, \* the value of next_event_id when the cycle began
    cycles,         \* completed extraction cycles
    given,          \* date and keyword list as handed to add_event, by Event id
    article_text,   \* argument of the last get_relevant_events call
    today_events,   \* what get_today_events returned to it
    relevant        \* what it returned (or None before any call)

news_vars == <<now, pc, feed_idx, feed_len, entry_idx, feed_articles,
               articles, published, post_stats, channel, digests,
               last_entry, last_parsed, last_log, last_unproc, last_pub>>
event_vars == <<today, ev_pc, page, new_events, events, next_event_id,
                cycle_first_id, cycles, given, article_text, today_events,
                relevant>>
vars == <<news_vars, event_vars>>

None == "None"

\* An optional value (Python's None or a value) as a sequence of length 0 or 1.
Nothing == <<>>
Some(x) == <<x>>

Min(a, b) == IF a <= b THEN a ELSE b

RECURSIVE SeqsUpTo(_, _)
SeqsUpTo(S, n) ==
    IF n = 0 THEN {<<>>}
    ELSE LET shorter == SeqsUpTo(S, n - 1)
         IN  shorter \cup {Append(s, x) : s \in {t \in shorter : Len(t) = n - 1}, x \in S}

(***************************************************************************)
(* Bounds of the model.                                                    *)
(***************************************************************************)
MaxStored == 2
MaxEntries == 3
MaxNow == 10
MaxStamp == 1
MaxDigests == 1
MaxMessageId == 2
MaxBlocks == 2
MaxCycles == 2
MaxDay == 62
MaxKeywordLen == 1
MaxTextLen == 2

(***************************************************************************)
(* Configuration (config.py): the number of feeds in RSS_FEEDS and         *)
(* ARTICLES_PER_FEED.                                                      *)
(***************************************************************************)
NumFeeds == 2
ARTICLES_PER_FEED == 2

(***************************************************************************)
(* rss_parser.py                                                           *)
(***************************************************************************)
StaleDays == 7

\* The feed entries a feed may serve.  A field that is absent is None
\* (strings) or Nothing (timestamps); media_content is the URL of the first
\* image the entry's media_content, media_thumbnail and links give.
Entries ==
    [id : {None, "g1"},
     link : {None, "l1"},
     title : {None, "t1"},
     published_parsed : {Nothing} \cup {Some(d) : d \in 0..MaxStamp},
     updated_parsed : {Nothing} \cup {Some(d) : d \in 0..MaxStamp},
     media_content : {None, "img"}]

\* .database.is_article_published(article_id)
is_article_published(store, article_id) ==
    \E row \in BagToSet(store) : row.id = article_id

\* the number of PublishedRecord rows of an article
record_count(store, article_id) ==
    LET rows == {row \in BagToSet(store) : row.id = article_id}
    IN  BagCardinality([row \in rows |-> CopiesIn(row, store)])

\* entry.get('id', entry.link)
article_id_of(entry) == IF entry.id # None THEN entry.id ELSE entry.link

\* the dict parse_entry returns (the title token stands for the cleaned title)
article_of(entry, feed_url) ==
    [id |-> article_id_of(entry),
     title |-> entry.title,
     link |-> entry.link,
     source |-> feed_url,
     image_url |-> entry.media_content]

\* parse_entry without the freshness check
parse_entry_nocheck(entry, feed_url, t) ==
    IF entry.link = None \/ entry.title = None
    THEN Nothing
    ELSE Some(article_of(entry, feed_url))

\* parse_entry whose missing timestamp defaults to the epoch, not to now
parse_entry_epoch(entry, feed_url, t) ==
    IF entry.link = None \/ entry.title = None
    THEN Nothing
    ELSE LET raw == IF entry.published_parsed # Nothing
                    THEN entry.published_parsed
                    ELSE entry.updated_parsed
             pub_date == IF raw # Nothing THEN raw[1] ELSE 0
         IN  IF t - pub_date > StaleDays
             THEN Nothing
             ELSE Some(article_of(entry, feed_url))

\* parse_entry(entry, feed_url) with datetime.now() = t: an Article, or None
parse_entry(entry, feed_url, t) ==
    IF entry.link = None \/ entry.title = None
    THEN Nothing            \* AttributeError, caught: return None
    ELSE LET raw == IF entry.published_parsed # Nothing
                    THEN entry.published_parsed
                    ELSE entry.updated_parsed
             pub_date == IF raw # Nothing THEN raw[1] ELSE t
         IN  IF t - pub_date > StaleDays
             THEN Nothing
             ELSE Some(article_of(entry, feed_url))

\* the screen of fetch_feed with the store query left out
admit_unscreened(parsed, store) == parsed # Nothing

\* fetch_feed, lines 52-54: is the parsed entry appended to `articles`?
admit(parsed, store) ==
    parsed # Nothing /\ ~is_article_published(store, parsed[1].id)

\* fetch_feed, lines 52-59: the line logged for the entry
log_line(parsed, store) ==
    IF parsed = Nothing THEN "could not process"
    ELSE IF is_article_published(store, parsed[1].id) THEN "already published"
    ELSE "added"

\* for entry in feed.entries[:ARTICLES_PER_FEED]
EntryLimit == Min(feed_len, ARTICLES_PER_FEED)

\* The driver starts a run: fetch_articles() is called.
RunStart ==
    /\ pc = "idle"
    /\ pc' = "feed"
    /\ feed_idx' = 1
    /\ articles' = <<>>
    /\ UNCHANGED <<now, feed_len, entry_idx, feed_articles, published,
                   post_stats, channel, digests, last_entry, last_parsed,
                   last_log, last_unproc, last_pub>>
    /\ UNCHANGED event_vars

\* fetch_articles calls fetch_feed(feed_url); feedparser.parse returns a feed
\* of n entries.
FetchFeedParse ==
    /\ pc = "feed"
    /\ feed_idx <= NumFeeds
    /\ \E n \in 0..MaxEntries : feed_len' = n
    /\ entry_idx' = 1
    /\ feed_articles' = <<>>
    /\ pc' = "entry"
    /\ last_unproc' = 0
    /\ UNCHANGED <<now, feed_idx, articles, published, post_stats,
                   channel, digests, last_entry, last_parsed, last_log,
                   last_pub>>
    /\ UNCHANGED event_vars

\* fetch_feed raises before its loop (feedparser.parse fails); fetch_articles
\* logs the error and goes on with the next feed.
FetchFeedFails ==
    /\ pc = "feed"
    /\ feed_idx <= NumFeeds
    /\ feed_idx' = feed_idx + 1
    /\ last_unproc' = 0
    /\ UNCHANGED <<now, pc, feed_len, entry_idx, feed_articles, articles,
                   published, post_stats, channel, digests, last_entry,
                   last_parsed, last_log, last_pub>>
    /\ UNCHANGED event_vars

\* One iteration of fetch_feed's loop, the store answering the query.
FetchEntry ==
    /\ pc = "entry"
    /\ entry_idx <= EntryLimit
    /\ \E entry \in Entries :
          LET parsed == parse_entry(entry, feed_idx, now)
          IN  /\ last_parsed' = parsed
              /\ last_log' = log_line(parsed, published)
              /\ feed_articles' = IF admit(parsed, published)
                                  THEN Append(feed_articles, parsed[1])
                                  ELSE feed_articles
    /\ entry_idx' = entry_idx + 1
    /\ UNCHANGED <<now, pc, feed_idx, feed_len, articles, published,
                   post_stats, channel, digests, last_entry, last_unproc,
                   last_pub>>
    /\ UNCHANGED event_vars

\* One iteration of fetch_feed's loop in which is_article_published raises:
\* the exception leaves fetch_feed and is caught in fetch_articles, which goes
\* on with the next feed.
FetchEntryStoreFails ==
    /\ pc = "entry"
    /\ entry_idx <= EntryLimit
    /\ \E entry \in Entries :
          LET parsed == parse_entry(entry, feed_idx, now)
          IN  /\ parsed # Nothing
              /\ last_parsed' = parsed
    /\ last_log' = "error fetching feed"
    /\ last_unproc' = EntryLimit - entry_idx
    /\ feed_articles' = <<>>
    /\ feed_len' = 0
    /\ entry_idx' = 1
    /\ feed_idx' = feed_idx + 1
    /\ pc' = "feed"
    /\ UNCHANGED <<now, articles, published, post_stats, channel,
                   digests, last_entry, last_pub>>
    /\ UNCHANGED event_vars

\* fetch_feed returns its list; fetch_articles extends `articles` with it.
FetchFeedReturn ==
    /\ pc = "entry"
    /\ entry_idx > EntryLimit
    /\ articles' = articles \o feed_articles
    /\ feed_articles' = <<>>
    /\ feed_len' = 0
    /\ entry_idx' = 1
    /\ feed_idx' = feed_idx + 1
    /\ pc' = "feed"
    /\ UNCHANGED <<now, published, post_stats, channel, digests,
                   last_entry, last_parsed, last_log, last_unproc, last_pub>>
    /\ UNCHANGED event_vars

\* fetch_articles returns; the driver starts handing the admitted articles to
\* publish_to_telegram.
FetchArticlesReturn ==
    /\ pc = "feed"
    /\ feed_idx > NumFeeds
    /\ pc' = "publish"
    /\ last_parsed' = Nothing
    /\ last_log' = None
    /\ UNCHANGED <<now, feed_idx, feed_len, entry_idx, feed_articles,
                   articles, published, post_stats, channel, digests,
                   last_entry, last_unproc, last_pub>>
    /\ UNCHANGED event_vars

(***************************************************************************)
(* publisher.py                                                            *)
(***************************************************************************)
\* What the collaborators answer during one publish_to_telegram call:
\* requests.head, bot.send_photo, bot.send_message inside the try block,
\* bot.send_message inside the `except RequestException` handler,
\* log_post_stats and add_published_article.
PublishOutcomes ==
    [head : {"200", "404", "RequestException"},
     photo : {"ok", "RequestException", "Exception"},
     message : {"ok", "RequestException", "Exception"},
     handler : {"ok", "Exception"},
     stats : {"ok", "Exception"},
     add : {"ok", "Exception"}]

\* An answer no call of the invocation asks for is written "ok" (or "200").
asked(article, o) ==
    LET img == article.image_url # None
        photo_called == img /\ o.head = "200"
        message_called == ~img \/ o.head = "404"
        handler_called == img /\ (\/ o.head = "RequestException"
                                  \/ photo_called /\ o.photo = "RequestException"
                                  \/ message_called /\ o.message = "RequestException")
        sent == \/ photo_called /\ o.photo = "ok"
                \/ message_called /\ o.message = "ok"
                \/ handler_called /\ o.handler = "ok"
    IN  /\ img \/ o.head = "200"
        /\ photo_called \/ o.photo = "ok"
        /\ message_called \/ o.message = "ok"
        /\ handler_called \/ o.handler = "ok"
        /\ sent \/ o.stats = "ok"
        /\ (sent /\ o.stats = "ok") \/ o.add = "ok"

\* The answers of the delivery calls (send_photo, send_message)
\* publish_to_telegram makes, in order (lines 19-54).
delivery_calls(article, o) ==
    IF article.image_url # None
    THEN IF o.head = "RequestException" THEN <<o.handler>>
         ELSE LET first == IF o.head = "200" THEN o.photo ELSE o.message
              IN  IF first = "RequestException"
                  THEN <<first, o.handler>>
                  ELSE <<first>>
    ELSE <<o.message>>

\* the message id Telegram gives the next message of the channel
next_message_id(chan) == BagCardinality(chan) + 1

\* publish_to_telegram(bot, article) when the stores hold `store` and `stats`
\* and the channel holds `chan`.
publish_to_telegram(article, o, store, stats, chan) ==
    LET calls == delivery_calls(article, o)
        sent == calls[Len(calls)] = "ok"
        message_id == next_message_id(chan)
        logged == sent /\ o.stats = "ok"
        added == logged /\ o.add = "ok"
    IN  [result |-> IF added THEN Some(message_id) ELSE Nothing,
         calls |-> calls,
         sent |-> sent,
         published |-> IF added
                       THEN store (+) SetToBag({[id |-> article.id, title |-> article.title]})
                       ELSE store,
         post_stats |-> IF logged THEN stats \cup {message_id} ELSE stats,
         channel |-> IF sent THEN chan (+) SetToBag({article.id}) ELSE chan]

\* publish_digest(bot, digest_text): one send_message, answering `answer`.
publish_digest(answer, chan) ==
    [result |-> IF answer = "ok" THEN Some(next_message_id(chan)) ELSE Nothing,
     calls |-> <<answer>>,
     sent |-> answer = "ok",
     channel |-> IF answer = "ok" THEN chan (+) SetToBag({"digest"}) ELSE chan]

\* The driver hands the next admitted article to publish_to_telegram.
Publish ==
    /\ pc = "publish"
    /\ articles # <<>>
    /\ \E o \in {x \in PublishOutcomes : asked(Head(articles), x)} :
          LET article == Head(articles)
              r == publish_to_telegram(article, o, published, post_stats, channel)
          IN  /\ published' = r.published
              /\ post_stats' = r.post_stats
              /\ channel' = r.channel
              /\ last_pub' = Some([op |-> "publish_to_telegram",
                                   article |-> article.id,
                                   result |-> r.result,
                                   calls |-> r.calls,
                                   sent |-> r.sent,
                                   records |-> record_count(r.published, article.id),
                                   created |-> r.published # published,
                                   stores_changed |-> (r.published # published
                                                       \/ r.post_stats # post_stats)])
    /\ articles' = Tail(articles)
    /\ UNCHANGED <<now, pc, feed_idx, feed_len, entry_idx, feed_articles,
                   digests, last_entry, last_parsed, last_log, last_unproc>>
    /\ UNCHANGED event_vars

\* Every admitted article has been handed over: the run ends.
RunEnd ==
    /\ pc = "publish"
    /\ articles = <<>>
    /\ pc' = "done"
    /\ UNCHANGED <<now, feed_idx, feed_len, entry_idx, feed_articles, articles,
                   published, post_stats, channel, digests, last_entry,
                   last_parsed, last_log, last_unproc, last_pub>>
    /\ UNCHANGED event_vars

\* publish_digest is called outside a run.
PublishDigest ==
    /\ pc \in {"idle", "done"}
    /\ digests < MaxDigests
    /\ \E answer \in {"ok", "Exception"} :
          LET r == publish_digest(answer, channel)
          IN  /\ channel' = r.channel
              /\ last_pub' = Some([op |-> "publish_digest",
                                   article |-> "digest",
                                   result |-> r.result,
                                   calls |-> r.calls,
                                   sent |-> r.sent,
                                   records |-> 0,
                                   created |-> FALSE,
                                   stores_changed |-> FALSE])
    /\ digests' = digests + 1
    /\ UNCHANGED <<now, pc, feed_idx, feed_len, entry_idx, feed_articles,
                   articles, published, post_stats, last_entry, last_parsed,
                   last_log, last_unproc>>
    /\ UNCHANGED event_vars

\* What the collaborators answer during one update_post_stats call:
\* bot.get_message (AttributeError on a bot without that method) and
\* log_post_stats.  A log_post_stats that is not reached is written "ok".
UpdateOutcomes ==
    {o \in [get : {"ok", "Exception"}, log : {"ok", "Exception"}] :
        o.get = "ok" \/ o.log = "ok"}

\* update_post_stats(bot, message_id) when PostStats holds `stats`: the
\* views and forwards read from the message are logged under its id; every
\* exception is caught and nothing is written.
update_post_stats(message_id, o, stats) ==
    IF o.get = "ok" /\ o.log = "ok" THEN stats \cup {message_id} ELSE stats

\* update_post_stats is called outside a run, on any message id.
UpdatePostStats ==
    /\ pc \in {"idle", "done"}
    /\ \E message_id \in 1..MaxMessageId, o \in UpdateOutcomes :
          post_stats' = update_post_stats(message_id, o, post_stats)
    /\ UNCHANGED <<now, pc, feed_idx, feed_len, entry_idx, feed_articles,
                   articles, published, channel, digests, last_entry,
                   last_parsed, last_log, last_unproc, last_pub>>
    /\ UNCHANGED event_vars

(***************************************************************************)
(* events.py                                                               *)
(*                                                                         *)
(* A string is the sequence of its characters.  The Cyrillic keywords of   *)
(* line 40 are written in Latin letters.                                   *)
(***************************************************************************)
RetentionDays == 30
YearLen == 365

Alphabet == {"a", "A", ","}
Comma == ","

premiera == <<"p", "r", "e", "m", "i", "e", "r", "a">>
film == <<"f", "i", "l", "m">>
serial == <<"s", "e", "r", "i", "a", "l">>

\* str.lower() on a character and on a string
lower_char(c) ==
    CASE c = "A" -> "a"
      [] c = "F" -> "f"
      [] c = "I" -> "i"
      [] c = "L" -> "l"
      [] c = "M" -> "m"
      [] OTHER -> c
lower(str) == [k \in 1..Len(str) |-> lower_char(str[k])]

\* `keyword in text` on strings
contains(text, keyword) ==
    \E k \in 0..(Len(text) - Len(keyword)) :
        SubSeq(text, k + 1, k + Len(keyword)) = keyword

\* ','.join(keywords)
RECURSIVE join(_)
join(strs) ==
    IF strs = <<>> THEN <<>>
    ELSE IF Len(strs) = 1 THEN strs[1]
    ELSE strs[1] \o <<Comma>> \o join(Tail(strs))

\* str.split(','): the pieces between the commas, empty pieces included
RECURSIVE split_from(_, _)
split_from(str, piece) ==
    IF str = <<>> THEN <<piece>>
    ELSE IF Head(str) = Comma THEN <<piece>> \o split_from(Tail(str), <<>>)
    ELSE split_from(Tail(str), Append(piece, Head(str)))
split(str) == split_from(str, <<>>)

\* any(keyword.lower() in article_content.lower() for keyword in keywords)
any_keyword_in(keywords, article_content) ==
    \E k \in 1..Len(keywords) :
        contains(lower(article_content), lower(keywords[k]))

\* datetime.strptime(date_str, '%B %d').replace(year=datetime.now().year):
\* the heading's day of the year, in the year of t
event_date(day_of_year, t) == (t \div YearLen) * YearLen + day_of_year

\* One listing block of the page: the preceding h3 (there is none, or
\* strptime rejects its text, or it names a day of the year), the title
\* element's text (Nothing when the element is missing) and the texts of the
\* star elements.
Heading(day) == [h3 |-> "date", day |-> day % YearLen]
NoHeading == [h3 |-> "none", day |-> 0]
BadHeading == [h3 |-> "bad", day |-> 0]

\* fetch_upcoming_events, lines 27-43: the events of the page's blocks; a
\* block without heading is passed over, a block that raises is logged and
\* passed over.
RECURSIVE parse_blocks(_, _)
parse_blocks(blocks, t) ==
    IF blocks = <<>> THEN <<>>
    ELSE LET b == Head(blocks)
             rest == parse_blocks(Tail(blocks), t)
         IN  IF b.heading.h3 # "date" \/ b.title = Nothing
             THEN rest
             ELSE <<[name |-> <<"Premiera: ">> \o b.title[1],
                     date |-> event_date(b.heading.day, t),
                     keywords |-> b.stars \o <<b.title[1], premiera, film, serial>>]>>
                  \o rest

\* fetch_upcoming_events(): `served` is Nothing when requests.get fails
fetch_upcoming_events(served, t) ==
    IF served = Nothing THEN <<>> ELSE parse_blocks(served[1], t)

\* .database.clear_old_data(days): the rows not older than `days` days
clear_old_data(rows, days, t) ==
    SelectSeq(rows, LAMBDA row : t - row.date <= days)

\* .database.add_event(name, date, keywords): the row added
event_row(id, event) ==
    [id |-> id, name |-> event.name, date |-> event.date,
     keywords |-> join(event.keywords)]

\* .database.get_today_events()
get_today_events(rows, t) == SelectSeq(rows, LAMBDA row : row.date = t)

\* get_relevant_events(article_content), lines 74-86, on the rows
\* get_today_events returned
RECURSIVE get_relevant_events(_, _)
get_relevant_events(rows, article_content) ==
    IF rows = <<>> THEN <<>>
    ELSE LET event == Head(rows)
             event_keywords == split(event.keywords)
             rest == get_relevant_events(Tail(rows), article_content)
         IN  IF any_keyword_in(event_keywords, article_content)
             THEN <<[id |-> event.id, name |-> event.name,
                     date |-> event.date, keywords |-> event_keywords]>> \o rest
             ELSE rest

\* update_events begins without purging
UpdateEventsBegin_nopurge ==
    /\ ev_pc = "idle"
    /\ cycles < MaxCycles
    /\ ev_pc' = "fetch"
    /\ cycle_first_id' = next_event_id
    /\ UNCHANGED <<today, page, new_events, events, next_event_id, cycles,
                   given, article_text, today_events, relevant>>
    /\ UNCHANGED news_vars

\* update_events, line 57: clear_old_data(days=30)
UpdateEventsBegin ==
    /\ ev_pc = "idle"
    /\ cycles < MaxCycles
    /\ events' = clear_old_data(events, RetentionDays, today)
    /\ ev_pc' = "fetch"
    /\ cycle_first_id' = next_event_id
    /\ UNCHANGED <<today, page, new_events, next_event_id, cycles, given,
                   article_text, today_events, relevant>>
    /\ UNCHANGED news_vars

\* update_events, line 60, on a page drawn from `pages` (or no page)
Fetch(pages) ==
    /\ ev_pc = "fetch"
    /\ \E served \in {Nothing} \cup {Some(pg) : pg \in pages} :
          new_events' = fetch_upcoming_events(served, today)
    /\ ev_pc' = "insert"
    /\ UNCHANGED <<today, page, events, next_event_id, cycle_first_id, cycles, given,
                   article_text, today_events, relevant>>
    /\ UNCHANGED news_vars

\* update_events, lines 63-64: one add_event
UpdateEventsInsert ==
    /\ ev_pc = "insert"
    /\ new_events # <<>>
    /\ events' = Append(events, event_row(next_event_id, Head(new_events)))
    /\ given' = Append(given, [date |-> Head(new_events).date,
                               keywords |-> Head(new_events).keywords])
    /\ next_event_id' = next_event_id + 1
    /\ new_events' = Tail(new_events)
    /\ UNCHANGED <<today, ev_pc, page, cycle_first_id, cycles, article_text,
                   today_events, relevant>>
    /\ UNCHANGED news_vars

\* update_events returns
UpdateEventsEnd ==
    /\ ev_pc = "insert"
    /\ new_events = <<>>
    /\ ev_pc' = "idle"
    /\ cycles' = cycles + 1
    /\ UNCHANGED <<today, page, new_events, events, next_event_id,
                   cycle_first_id, given, article_text, today_events, relevant>>
    /\ UNCHANGED news_vars

\* get_relevant_events(text), between extraction cycles
Match(texts) ==
    /\ ev_pc = "idle"
    /\ \E text \in texts :
          /\ article_text' = text
          /\ today_events' = get_today_events(events, today)
          /\ relevant' = Some(get_relevant_events(get_today_events(events, today), text))
    /\ UNCHANGED <<today, ev_pc, page, new_events, events, next_event_id,
                   cycle_first_id, cycles, given>>
    /\ UNCHANGED news_vars

\* Days pass between extraction cycles.
DaysPass ==
    /\ ev_pc = "idle"
    /\ \E d \in {RetentionDays, RetentionDays + 1} :
          /\ today + d <= MaxDay
          /\ today' = today + d
    /\ relevant' = Nothing
    /\ article_text' = <<>>
    /\ today_events' = <<>>
    /\ UNCHANGED <<ev_pc, page, new_events, events, next_event_id,
                   cycle_first_id, cycles, given>>
    /\ UNCHANGED news_vars

EventsIdle ==
    /\ today = 0
    /\ ev_pc = "idle"
    /\ page = Nothing
    /\ new_events = <<>>
    /\ events = <<>>
    /\ next_event_id = 1
    /\ cycle_first_id = 1
    /\ cycles = 0
    /\ given = <<>>
    /\ article_text = <<>>
    /\ today_events = <<>>
    /\ relevant = Nothing

\* The PublishedRecord rows earlier runs may have left.
EarlierRecords == {[id |-> i, title |-> "t0"] : i \in {"g1", "l1"}}

NewsIdle ==
    /\ pc = "idle"
    /\ feed_idx = 1
    /\ feed_len = 0
    /\ entry_idx = 1
    /\ feed_articles = <<>>
    /\ articles = <<>>
    /\ \E rows \in SUBSET EarlierRecords :
          /\ Cardinality(rows) <= MaxStored
          /\ published = SetToBag(rows)
          /\ channel = SetToBag({row.id : row \in rows})
          /\ post_stats = 1..Cardinality(rows)
    /\ digests = 0
    /\ last_entry = Nothing
    /\ last_parsed = Nothing
    /\ last_log = None
    /\ last_unproc = 0
    /\ last_pub = Nothing

\* The pipeline: a run of fetch_articles followed by the publication of what
\* it admitted, on a store earlier runs have written to, at a time when every
\* stamp a feed may carry but the newest is stale.
Init == now = StaleDays + 1 /\ NewsIdle /\ EventsIdle

Next ==
    \/ RunStart
    \/ FetchFeedParse
    \/ FetchFeedFails
    \/ FetchEntry
    \/ FetchEntryStoreFails
    \/ FetchFeedReturn
    \/ FetchArticlesReturn
    \/ Publish
    \/ RunEnd
    \/ PublishDigest
    \/ UpdatePostStats

Spec == Init /\ [][Next]_vars

\* parse_entry alone: one call on an entry and a clock drawn at the start.
ParseEntry ==
    /\ pc = "parse"
    /\ last_parsed' = parse_entry(last_entry[1], 1, now)
    /\ pc' = "parsed"
    /\ UNCHANGED <<now, feed_idx, feed_len, entry_idx, feed_articles,
                   articles, published, post_stats, channel, digests,
                   last_entry, last_log, last_unproc, last_pub>>
    /\ UNCHANGED event_vars

InitParse ==
    /\ now \in 0..MaxNow
    /\ pc = "parse"
    /\ feed_idx = 1
    /\ feed_len = 0
    /\ entry_idx = 1
    /\ feed_articles = <<>>
    /\ articles = <<>>
    /\ published = EmptyBag
    /\ post_stats = {}
    /\ channel = EmptyBag
    /\ digests = 0
    /\ last_entry \in {Some(e) : e \in Entries}
    /\ last_parsed = Nothing
    /\ last_log = None
    /\ last_unproc = 0
    /\ last_pub = Nothing
    /\ EventsIdle


NextParse == ParseEntry

SpecParse == InitParse /\ [][NextParse]_vars

(***************************************************************************)
(* Properties of the pipeline.                                             *)
(***************************************************************************)
\* the messages of the channel that carry an article
DeliveredIds == BagToSet(channel) \ {"digest"}

\* C1: no article identifier is delivered more than once, and none has more
\* than one PublishedRecord.
C1_NeverPublishedTwice ==
    \A i \in DeliveredIds :
        CopiesIn(i, channel) <= 1 /\ record_count(published, i) <= 1

\* what the last publish_to_telegram call did
LastPublish == last_pub[1]
PublishedOnce == last_pub # Nothing /\ LastPublish.op = "publish_to_telegram"

\* C2: when the delivery of an article succeeded, publish_to_telegram returns
\* the message id and exactly one PublishedRecord of the article exists; when
\* it did not, no PublishedRecord was created.
C2_RecordOncePerDelivery ==
    PublishedOnce =>
        /\ LastPublish.sent =>
              LastPublish.result # Nothing /\ LastPublish.records = 1
        /\ ~LastPublish.sent => ~LastPublish.created

\* the entry parse_entry was called on, and its timestamp: published_parsed,
\* or updated_parsed when that is missing
ParsedEntry == last_entry[1]
EntryStamp ==
    IF ParsedEntry.published_parsed # Nothing
    THEN ParsedEntry.published_parsed
    ELSE ParsedEntry.updated_parsed
Derivable == ParsedEntry.link # None /\ ParsedEntry.title # None

\* C3: an entry whose timestamp is more than 7 days before now yields no
\* Article.
C3_StaleRejected ==
    (pc = "parsed" /\ EntryStamp # Nothing /\ now - EntryStamp[1] > 7)
        => last_parsed = Nothing

C3_Witness ==
    /\ pc = "parsed"
    /\ Derivable
    /\ EntryStamp # Nothing
    /\ now - EntryStamp[1] > 7
    /\ last_parsed = Nothing

\* C4 as stated: an entry without published_parsed whose id, title and link
\* can be derived is never rejected.
C4_NoPublishedNeverStale ==
    (pc = "parsed" /\ ParsedEntry.published_parsed = Nothing /\ Derivable)
        => last_parsed # Nothing

\* C4, amended: an entry with neither published_parsed nor updated_parsed
\* whose id, title and link can be derived is never rejected.
C4_NoStampNeverStale ==
    (pc = "parsed" /\ EntryStamp = Nothing /\ Derivable)
        => last_parsed # Nothing

C4_Witness ==
    /\ pc = "parsed"
    /\ now > 7
    /\ EntryStamp = Nothing
    /\ Derivable
    /\ last_parsed # Nothing

\* C5: while fetch_articles runs, no article of its lists has an identifier
\* that is in PublishedRecord.
C5_DuplicateNeverAdmitted ==
    pc \in {"feed", "entry"} =>
        \A k \in 1..Len(articles \o feed_articles) :
            ~is_article_published(published, (articles \o feed_articles)[k].id)

C5_Witness ==
    /\ pc = "entry"
    /\ last_log = "already published"
    /\ last_parsed # Nothing
    /\ \E row \in BagToSet(published) :
          /\ row.id = last_parsed[1].id
          /\ row.title # last_parsed[1].title
    /\ \A k \in 1..Len(feed_articles) : feed_articles[k].id # last_parsed[1].id

\* C8: no entry of a feed is left unprocessed because a sibling entry failed.
C8_SiblingsProcessed == last_unproc = 0

\* C9: when a delivery call fails, no message id is returned, no second
\* delivery call is made and the stores are unchanged.
C9_FailedDeliveryNoRetry ==
    (last_pub # Nothing /\ LastPublish.calls[1] # "ok") =>
        /\ LastPublish.result = Nothing
        /\ Len(LastPublish.calls) <= 1
        /\ ~LastPublish.stores_changed


(***************************************************************************)
(* The extraction cycles: update_events on the pages of a calendar whose   *)
(* blocks differ in heading and in what is missing.                        *)
(***************************************************************************)
CycleBlocks ==
    {[heading |-> h, title |-> Some(<<"a">>), stars |-> <<>>] :
        h \in {NoHeading, BadHeading, Heading(today),
                Heading(today - (RetentionDays + 1))}}
    \cup {[heading |-> Heading(today), title |-> Nothing, stars |-> <<>>]}

UpdateEventsFetch == Fetch(SeqsUpTo(CycleBlocks, MaxBlocks))

GetRelevantEvents == Match({<<"A">>})

NewsStopped ==
    /\ now = 0
    /\ pc = "stopped"
    /\ feed_idx = 1
    /\ feed_len = 0
    /\ entry_idx = 1
    /\ feed_articles = <<>>
    /\ articles = <<>>
    /\ published = EmptyBag
    /\ post_stats = {}
    /\ channel = EmptyBag
    /\ digests = 0
    /\ last_entry = Nothing
    /\ last_parsed = Nothing
    /\ last_log = None
    /\ last_unproc = 0
    /\ last_pub = Nothing

InitEvents == NewsStopped /\ EventsIdle

NextEvents ==
    \/ UpdateEventsBegin
    \/ UpdateEventsFetch
    \/ UpdateEventsInsert
    \/ UpdateEventsEnd
    \/ GetRelevantEvents
    \/ DaysPass

SpecEvents == InitEvents /\ [][NextEvents]_vars

(***************************************************************************)
(* The relevance matcher: one extraction cycle on a page of today's        *)
(* events whose titles and stars are drawn at the start, then              *)
(* get_relevant_events on a text drawn at the start.                       *)
(***************************************************************************)
Keywords == SeqsUpTo(Alphabet, MaxKeywordLen)
Texts == SeqsUpTo(Alphabet, MaxTextLen) \cup {<<"F", "I", "L", "M">>}

MatchBlocks ==
    [heading : {Heading(0)},
     title : {Some(kw) : kw \in Keywords},
     stars : {<<>>} \cup {<<kw>> : kw \in {<<>>, <<"A">>}}]

UpdateEventsFetchServed == Fetch({page[1]})

GetRelevantEventsOfText == Match({article_text})

InitMatch ==
    /\ NewsStopped
    /\ today = 0
    /\ ev_pc = "idle"
    /\ page \in {Some(pg) : pg \in SeqsUpTo(MatchBlocks, MaxBlocks)}
    /\ new_events = <<>>
    /\ events = <<>>
    /\ next_event_id = 1
    /\ cycle_first_id = 1
    /\ cycles = 0
    /\ given = <<>>
    /\ article_text \in Texts
    /\ today_events = <<>>
    /\ relevant = Nothing

NextMatch ==
    \/ UpdateEventsBegin
    \/ UpdateEventsFetchServed
    \/ UpdateEventsInsert
    \/ UpdateEventsEnd
    \/ GetRelevantEventsOfText

SpecMatch == InitMatch /\ [][NextMatch]_vars

(***************************************************************************)
(* Properties of the event store and of the relevance matcher.             *)
(***************************************************************************)
\* the result of the last get_relevant_events call
Matched == relevant[1]
IdsOf(rows) == [k \in 1..Len(rows) |-> rows[k].id]

\* C6: get_relevant_events returns the empty list for the empty text and when
\* there are no events today.
C6_EmptyTextNoMatch ==
    (relevant # Nothing /\ (article_text = <<>> \/ today_events = <<>>))
        => Matched = <<>>

\* a keyword occurs in a text, letter case ignored
OccursIn(keyword, text) == contains(lower(text), lower(keyword))

\* the rows whose keyword list, as handed to add_event, has a keyword that
\* occurs in the text
RowsToMatch(rows, text) ==
    SelectSeq(rows, LAMBDA row :
        \E k \in 1..Len(given[row.id].keywords) :
            OccursIn(given[row.id].keywords[k], text))

\* C7: get_relevant_events returns exactly today's events one of whose
\* keywords, as handed to the store, occurs in the text, in the store's order.
C7_ExactlyTheMatching ==
    relevant # Nothing =>
        IdsOf(Matched) = IdsOf(RowsToMatch(today_events, article_text))

\* the events an earlier cycle inserted that are older than 30 days
Outdated(rows) ==
    {k \in 1..Len(rows) : rows[k].id < cycle_first_id /\ today - rows[k].date > 30}

\* C10: from the purge of a cycle on, and so while the cycle inserts, the
\* store holds no event of an earlier cycle that is older than 30 days, and
\* no query on today's events returns one.
C10_PurgeBeforeInsert ==
    /\ ev_pc \in {"fetch", "insert"} => Outdated(events) = {}
    /\ \A k \in 1..Len(today_events) : today - today_events[k].date <= 30

C10_Witness ==
    /\ ev_pc = "insert"
    /\ new_events # <<>>
    /\ cycles >= 1
    /\ \E id \in 1..(cycle_first_id - 1) :
          /\ today - given[id].date >= 31
          /\ \A k \in 1..Len(events) : events[k].id # id
    /\ \E k \in 1..Len(events) :
          events[k].id < cycle_first_id /\ today - events[k].date = 30

====
